---------------------------- MODULE Spec2Model ----------------------------
(***************************************************************************)
(* Model of scripts/exchange_api_tester.py: the ExchangeAPITester class    *)
(* (test_single_endpoint, validate_data, run_concurrent_tests,             *)
(* test_all_exchanges, generate_report) driven either by main() or by a    *)
(* direct call of test_single_endpoint.                                    *)
(*                                                                         *)
(* Conventions.                                                            *)
(*  - Times are integers in milliseconds; a value the code holds in        *)
(*    seconds (the 15 of the timeout) is multiplied by MsPerSec.           *)
(*  - A Python str built by an f-string is the tuple of its pieces, so     *)
(*    "" is << >> and concatenation is \o.  The Chinese literals of the    *)
(*    source are written as ASCII glosses (the module text is ASCII);      *)
(*    the original literal is given where each is defined.                 *)
(*  - A rational (statistics.mean, the success rate) is a record           *)
(*    [num, den] with den > 0, compared by cross-multiplication.           *)
(*  - A dict is the sequence of its entries in insertion order.            *)
(***************************************************************************)
EXTENDS Integers, Sequences, FiniteSets, TLC

VARIABLES
    caller,            \* "main": main() drives the tester; "api": one direct call of test_single_endpoint
    exchange_configs,  \* self.exchange_configs: the keys, in insertion order
    endpoint,          \* the endpoint argument
    arg_exchange,      \* the exchange argument of the direct call ("" under main)
    session,           \* self.session
    pc,                \* position of the calling coroutine
    idx,               \* position of the for loop of test_all_exchanges in exchange_configs
    tasks,             \* the coroutines of the current gather / the direct call
    issued,            \* per exchange name: calls of self.session.get made so far
    launched,          \* per exchange name: coroutines of test_single_endpoint created so far
    all_results,       \* the local all_results of test_all_exchanges
    test_summary,      \* self.test_summary
    ret,               \* what the direct call returned
    report             \* what generate_report returned

vars == <<caller, exchange_configs, endpoint, arg_exchange, session, pc, idx,
          tasks, issued, launched, all_results, test_summary, ret, report>>

-----------------------------------------------------------------------------
(* Bounds of the model *)

\* exchange_configs of a batch run holds the first 0..MaxTargets entries of the table
MaxTargets == 2

-----------------------------------------------------------------------------
(* Constants of the program *)

\* run_concurrent_tests(exchange, endpoint, 3)
NUM_REQUESTS == 3
\* aiohttp.ClientTimeout(total=15), seconds
CLIENT_TIMEOUT_TOTAL == 15
\* response_time=15 of the Timeout result, seconds
TIMEOUT_RESPONSE_TIME == 15
\* error_text[:50], str(e)[:50]
ERROR_TEXT_LIMIT == 50
\* avg_response_time*1000
MsPerSec == 1000
\* 'total_requests': 3
TOTAL_REQUESTS == 3
\* success_rate >= 95 is green
GREEN_RATE == 95
\* success_rate >= 80 is yellow
YELLOW_RATE == 80

\* the keys of EXCHANGE_CONFIGS in insertion order
EXCHANGE_CONFIGS ==
    <<"binance", "kucoin", "gateio", "mexc", "huobi", "bitget", "okx", "pionex">>

\* every entry of EXCHANGE_CONFIGS has "endpoints": {"ticker": ...} and nothing else
ConfigEndpoints(exchange) == {"ticker"}

\* "配置不存在"
ERR_CONFIG_MISSING == <<"config does not exist">>
\* "數據不完整"
ERR_DATA_INCOMPLETE == <<"data incomplete">>
ERR_TIMEOUT == <<"Timeout">>
\* "暫無測試數據"
NO_TEST_DATA == <<"no test data yet">>

None == [none |-> TRUE]


-----------------------------------------------------------------------------
(* The environment: what the exchanges' servers can answer *)

\* a parsed JSON body: a dict is [type |-> "dict", value |-> the record of its
\* fields], a list is [type |-> "list", value |-> the tuple of its elements],
\* anything else (null, a number, a string) is [type |-> "scalar"]
JDict(r) == [type |-> "dict", value |-> r]
JList(s) == [type |-> "list", value |-> s]
JNull == [type |-> "scalar", value |-> << >>]

EmptyDict == JDict(<< >>)
EmptyList == JList(<< >>)
\* a body every branch of validate_data accepts
FullTicker ==
    JDict([symbol |-> "BTCUSDT", lastPrice |-> "1", code |-> "00000", result |-> TRUE])

\* the bodies a server answers a direct call with
ApiBodies ==
    { EmptyDict, EmptyList, JNull,
      JList(<<EmptyDict>>),
      JDict([symbol |-> "BTCUSDT", lastPrice |-> "1"]),
      JDict([symbol |-> "BTCUSDT"]),
      JDict([code |-> "00000"]),
      JDict([code |-> "40001"]),
      JDict([result |-> TRUE]),
      JDict([result |-> FALSE]) }

\* the bodies a server answers a probe of the batch run with
BatchBodies == { FullTicker }

\* the elapsed times (ms) a response can arrive after
Times == { 80, 120 }
\* the elapsed time (ms) a refused connection fails after
ConnectFailTimes == { 5 }
\* the status codes a server answers with
ApiStatuses == { 200, 500 }
BatchStatuses == { 200 }
\* the bodies of a non-200 answer: one shorter and one longer than ERROR_TEXT_LIMIT
ShortText == "Internal Server Error"
LongText == "upstream connect error or disconnect/reset before headers. reset reason: overflow"
ErrorTexts == { ShortText, LongText }
\* str(e) of the AttributeError of None.get
NoSessionMessage == "'NoneType' object has no attribute 'get'"
\* str(e) of a ClientConnectorError
ConnectMessage == "Cannot connect to host"
\* str(e) of the ContentTypeError of response.json() on a body that is no JSON
MimetypeMessage ==
    "200, message='Attempt to decode JSON with unexpected mimetype: text/html', url='/ticker'"
\* the endpoint names a caller can pass
Endpoints == { "ticker", "depth" }
\* the exchange names a direct call can pass: configured ones and one that is not
ApiExchanges == { "binance", "kucoin", "bitget", "pionex", "ftx" }

-----------------------------------------------------------------------------
(* Python built-ins the code uses *)

\* len(s) of the strings the model slices
StrLenOf(s) ==
    CASE s = ShortText -> 21
      [] s = LongText -> 81
      [] s = NoSessionMessage -> 40
      [] s = ConnectMessage -> 22
      [] s = MimetypeMessage -> 88

\* s[:n] of those strings
Slice(s, n) ==
    IF StrLenOf(s) <= n THEN s
    ELSE CASE s = LongText /\ n = 50 -> "upstream connect error or disconnect/reset before "
           [] s = MimetypeMessage /\ n = 50 -> "200, message='Attempt to decode JSON with unexpect"

\* str(status)
StrOfStatus(status) == CASE status = 200 -> "200" [] status = 500 -> "500"

\* len(repr(k) + ": " + repr(v)) of one dict item
ItemWidth(k, v) ==
    CASE k = "symbol" -> 19
      [] k = "lastPrice" -> 16
      [] k = "code" -> 15
      [] k = "result" -> IF v = TRUE THEN 14 ELSE 15

RECURSIVE SumWidths(_, _)
SumWidths(r, keys) ==
    IF keys = {} THEN 0
    ELSE LET k == CHOOSE x \in keys : TRUE
         IN ItemWidth(k, r[k]) + SumWidths(r, keys \ {k})

\* len(str(data))
RECURSIVE StrLen(_)
StrLen(data) ==
    CASE data.type = "scalar" -> 4
      [] data.type = "dict" ->
            LET n == Cardinality(DOMAIN data.value)
            IN 2 + SumWidths(data.value, DOMAIN data.value) + (IF n > 0 THEN 2 * (n - 1) ELSE 0)
      [] data.type = "list" ->
            LET n == Len(data.value)
            IN 2 + (IF n > 0 THEN 2 * (n - 1) ELSE 0)
                 + (IF n > 0 THEN StrLen(data.value[1]) * n ELSE 0)

\* len(data) of a dict or list
PyLen(data) ==
    IF data.type = "dict" THEN Cardinality(DOMAIN data.value) ELSE Len(data.value)

\* key in data, for a dict
HasKey(data, k) == k \in DOMAIN data.value

-----------------------------------------------------------------------------
(* validate_data *)

\* validate_data without its branches by exchange name (a faulty variant)
validate_data_Generic(exchange, data) ==
    IF data.type = "dict" THEN PyLen(data) > 0
    ELSE IF data.type = "list" THEN PyLen(data) > 0
    ELSE TRUE

validate_data(exchange, data) ==
    IF exchange = "binance"
    THEN data.type = "dict" /\ HasKey(data, "symbol") /\ HasKey(data, "lastPrice")
    ELSE IF exchange = "bitget"
    THEN data.type = "dict" /\ HasKey(data, "code") /\ data.value.code = "00000"
    ELSE IF exchange = "pionex"
    THEN data.type = "dict" /\ HasKey(data, "result") /\ data.value.result = TRUE
    ELSE IF data.type = "dict" THEN PyLen(data) > 0
    ELSE IF data.type = "list" THEN PyLen(data) > 0
    ELSE TRUE

-----------------------------------------------------------------------------
(* TestResult and the results test_single_endpoint builds *)

\* the dataclass; its timestamp field (time.time() at construction) is read nowhere
TestResult(exchange, success, response_time, data_size, error_type) ==
    [exchange |-> exchange, success |-> success, response_time |-> response_time,
     data_size |-> data_size, error_type |-> error_type]

ConfigMissingResult(exchange) ==
    TestResult(exchange, FALSE, 0, 0, ERR_CONFIG_MISSING)

\* status 200 and the body parsed
Status200Result(exchange, response_time, data) ==
    LET is_valid == validate_data(exchange, data)
    IN TestResult(exchange, is_valid, response_time, StrLen(data),
                  IF is_valid THEN << >> ELSE ERR_DATA_INCOMPLETE)

\* any other status
HttpErrorResult(exchange, response_time, status, error_text) ==
    TestResult(exchange, FALSE, response_time, 0,
               <<"HTTP ", StrOfStatus(status), ": ", Slice(error_text, ERROR_TEXT_LIMIT)>>)

\* TimeoutResult with a response time of 10 s (a faulty variant)
TimeoutResult_Ten(exchange) ==
    TestResult(exchange, FALSE, 10 * MsPerSec, 0, ERR_TIMEOUT)

\* except asyncio.TimeoutError
TimeoutResult(exchange) ==
    TestResult(exchange, FALSE, TIMEOUT_RESPONSE_TIME * MsPerSec, 0, ERR_TIMEOUT)

\* except Exception as e
ExceptionResult(exchange, elapsed, type_name, message) ==
    TestResult(exchange, FALSE, elapsed, 0,
               <<type_name, ": ", Slice(message, ERROR_TEXT_LIMIT)>>)


-----------------------------------------------------------------------------
(* The coroutines *)

Range(f) == { f[i] : i \in DOMAIN f }

AllNames == Range(EXCHANGE_CONFIGS) \cup ApiExchanges

TaskIds == 1 .. NUM_REQUESTS

NoResult == TestResult("", FALSE, 0, 0, << >>)

\* no body parsed (yet)
NoData == [type |-> "unset", value |-> << >>]

\* a coroutine of test_single_endpoint: where it is (once it has returned, the
\* return statement it left by), the status line it has seen (0: none), its
\* locals response_time and data, and what it returned
Task(tpc, status, response_time, data, result) ==
    [pc |-> tpc, status |-> status, response_time |-> response_time,
     data |-> data, result |-> result]

Unused == Task("unused", 0, 0, NoData, NoResult)
Scheduled == Task("scheduled", 0, 0, NoData, NoResult)
InFlight == Task("inflight", 0, 0, NoData, NoResult)
Raised == Task("raised", 0, 0, NoData, NoResult)

\* the return statements of test_single_endpoint
ReturnSites ==
    { "ret_config_missing", "ret_200", "ret_http", "ret_timeout", "ret_exception" }

Returned(t) == t.pc \in ReturnSites

\* the exchange the running coroutines probe
CurExchange ==
    IF caller = "main" THEN exchange_configs[idx] ELSE arg_exchange

\* what the servers answer, by caller: in the batch run a server answers 200
\* with a ticker or not at all, in the direct call it can give every answer
Bodies == IF caller = "main" THEN BatchBodies ELSE ApiBodies
Statuses == IF caller = "main" THEN BatchStatuses ELSE ApiStatuses
UnparsableBodies == IF caller = "main" THEN {} ELSE { MimetypeMessage }
ConnectFailures == IF caller = "main" THEN {} ELSE { ConnectMessage }

\* the first n keys of EXCHANGE_CONFIGS
FirstKeys(n) == SubSeq(EXCHANGE_CONFIGS, 1, n)

Init ==
    /\ caller \in { "main", "api" }
    /\ endpoint \in Endpoints
    /\ \/ /\ caller = "main"
          /\ exchange_configs \in { FirstKeys(n) : n \in 0 .. MaxTargets }
          /\ arg_exchange = ""
       \/ /\ caller = "api"
          /\ exchange_configs = EXCHANGE_CONFIGS
          /\ arg_exchange \in ApiExchanges
    /\ session = None
    /\ pc = "start"
    /\ idx = 0
    /\ tasks = [k \in TaskIds |-> Unused]
    /\ issued = [e \in AllNames |-> 0]
    /\ launched = [e \in AllNames |-> 0]
    /\ all_results = << >>
    /\ test_summary = << >>
    /\ ret = None
    /\ report = None

\* __aenter__
AEnter ==
    /\ pc = "start"
    /\ session' = [timeout_total |-> CLIENT_TIMEOUT_TOTAL, closed |-> FALSE]
    /\ pc' = "entered"
    /\ UNCHANGED <<caller, exchange_configs, endpoint, arg_exchange, idx, tasks,
                   issued, launched, all_results, test_summary, ret, report>>

\* main(): await tester.test_all_exchanges("ticker"), or another caller's
\* test_all_exchanges(endpoint): all_results = {} and the loop is entered
CallTestAllExchanges ==
    /\ caller = "main"
    /\ pc = "entered"
    /\ pc' = "loop"
    /\ idx' = 1
    /\ all_results' = << >>
    /\ UNCHANGED <<caller, exchange_configs, endpoint, arg_exchange, session, tasks,
                   issued, launched, test_summary, ret, report>>

\* a caller awaits test_single_endpoint(arg_exchange, endpoint), with or
\* without the session opened
CallTestSingleEndpoint ==
    /\ caller = "api"
    /\ pc \in { "start", "entered" }
    /\ pc' = "awaiting"
    /\ tasks' = [k \in TaskIds |-> IF k = 1 THEN Scheduled ELSE Unused]
    /\ launched' = [launched EXCEPT ![arg_exchange] = @ + 1]
    /\ UNCHANGED <<caller, exchange_configs, endpoint, arg_exchange, session, idx,
                   issued, all_results, test_summary, ret, report>>

\* RunConcurrentTests awaiting one probe instead of gathering NUM_REQUESTS
\* (a faulty variant)
RunConcurrentTests_OneProbe ==
    /\ pc = "loop"
    /\ idx <= Len(exchange_configs)
    /\ tasks' = [k \in TaskIds |-> IF k = 1 THEN Scheduled ELSE Unused]
    /\ launched' = [launched EXCEPT ![exchange_configs[idx]] = @ + 1]
    /\ pc' = "awaiting"
    /\ UNCHANGED <<caller, exchange_configs, endpoint, arg_exchange, session, idx,
                   issued, all_results, test_summary, ret, report>>

\* the for loop takes its next exchange: run_concurrent_tests builds the
\* NUM_REQUESTS coroutines and hands them to asyncio.gather, and the loop waits
RunConcurrentTests ==
    /\ pc = "loop"
    /\ idx <= Len(exchange_configs)
    /\ tasks' = [k \in TaskIds |-> Scheduled]
    /\ launched' = [launched EXCEPT ![exchange_configs[idx]] = @ + NUM_REQUESTS]
    /\ pc' = "awaiting"
    /\ UNCHANGED <<caller, exchange_configs, endpoint, arg_exchange, session, idx,
                   issued, all_results, test_summary, ret, report>>

\* the for loop is exhausted: return all_results
ReturnAllResults ==
    /\ pc = "loop"
    /\ idx > Len(exchange_configs)
    /\ pc' = "returned"
    /\ UNCHANGED <<caller, exchange_configs, endpoint, arg_exchange, session, idx,
                   tasks, issued, launched, all_results, test_summary, ret, report>>

\* the event loop runs the scheduled coroutines in the order gather took them
\* (its ready queue is first in, first out), each up to its first suspension
MayStart(k) ==
    /\ tasks[k].pc = "scheduled"
    /\ \A j \in TaskIds : j < k => tasks[j].pc # "scheduled"

\* a response can only arrive once the loop has run every ready coroutine
MayReceive(k, tpc) ==
    /\ tasks[k].pc = tpc
    /\ \A j \in TaskIds : tasks[j].pc # "scheduled"

\* the coroutine runs to session.get: the configuration lookups, then the request
StartProbe(k) ==
    /\ pc = "awaiting"
    /\ MayStart(k)
    /\ IF CurExchange \notin Range(exchange_configs)
       THEN /\ tasks' = [tasks EXCEPT ![k] =
                    Task("ret_config_missing", 0, 0, NoData, ConfigMissingResult(CurExchange))]
            /\ UNCHANGED issued
       ELSE IF endpoint \notin ConfigEndpoints(CurExchange)
       THEN \* config['endpoints'][endpoint] raises KeyError, outside the try
            /\ tasks' = [tasks EXCEPT ![k] = Raised]
            /\ UNCHANGED issued
       ELSE IF session = None
       THEN \* self.session.get raises AttributeError, inside the try
            /\ tasks' = [tasks EXCEPT ![k] =
                    Task("ret_exception", 0, 0, NoData,
                         ExceptionResult(CurExchange, 0, "AttributeError", NoSessionMessage))]
            /\ UNCHANGED issued
       ELSE /\ tasks' = [tasks EXCEPT ![k] = InFlight]
            /\ issued' = [issued EXCEPT ![CurExchange] = @ + 1]
    /\ UNCHANGED <<caller, exchange_configs, endpoint, arg_exchange, session, pc, idx,
                   launched, all_results, test_summary, ret, report>>

\* the status line and headers arrive: end_time is taken
ReceiveHeaders(k) ==
    /\ pc = "awaiting"
    /\ MayReceive(k, "inflight")
    /\ \E status \in Statuses, t \in Times :
          tasks' = [tasks EXCEPT ![k] = Task("headers", status, t, NoData, NoResult)]
    /\ UNCHANGED <<caller, exchange_configs, endpoint, arg_exchange, session, pc, idx,
                   issued, launched, all_results, test_summary, ret, report>>

\* status 200 and response.json() returns the parsed body
ReceiveJson(k) ==
    /\ pc = "awaiting"
    /\ MayReceive(k, "headers")
    /\ tasks[k].status = 200
    /\ \E data \in Bodies :
          tasks' = [tasks EXCEPT ![k] =
                       Task("ret_200", 200, tasks[k].response_time, data,
                            Status200Result(CurExchange, tasks[k].response_time, data))]
    /\ UNCHANGED <<caller, exchange_configs, endpoint, arg_exchange, session, pc, idx,
                   issued, launched, all_results, test_summary, ret, report>>

\* status 200 and response.json() raises on a body that is no JSON
JsonFails(k) ==
    /\ pc = "awaiting"
    /\ MayReceive(k, "headers")
    /\ tasks[k].status = 200
    /\ \E t \in Times, message \in UnparsableBodies :
          /\ t >= tasks[k].response_time
          /\ tasks' = [tasks EXCEPT ![k] =
                Task("ret_exception", 200, 0, NoData,
                     ExceptionResult(CurExchange, t, "ContentTypeError", message))]
    /\ UNCHANGED <<caller, exchange_configs, endpoint, arg_exchange, session, pc, idx,
                   issued, launched, all_results, test_summary, ret, report>>

\* another status and response.text() returns the body
ReceiveText(k) ==
    /\ pc = "awaiting"
    /\ MayReceive(k, "headers")
    /\ tasks[k].status # 200
    /\ \E error_text \in ErrorTexts :
          tasks' = [tasks EXCEPT ![k] =
                       Task("ret_http", tasks[k].status, tasks[k].response_time, NoData,
                            HttpErrorResult(CurExchange, tasks[k].response_time,
                                            tasks[k].status, error_text))]
    /\ UNCHANGED <<caller, exchange_configs, endpoint, arg_exchange, session, pc, idx,
                   issued, launched, all_results, test_summary, ret, report>>

\* the session's total timeout expires while the coroutine waits for the
\* headers or reads the body: asyncio.TimeoutError inside the try
TimeoutExpires(k) ==
    /\ pc = "awaiting"
    /\ session # None
    /\ \/ MayReceive(k, "inflight")
       \/ MayReceive(k, "headers")
    /\ tasks' = [tasks EXCEPT ![k] =
            Task("ret_timeout", tasks[k].status, 0, NoData, TimeoutResult(CurExchange))]
    /\ UNCHANGED <<caller, exchange_configs, endpoint, arg_exchange, session, pc, idx,
                   issued, launched, all_results, test_summary, ret, report>>

\* the connection fails: an aiohttp.ClientError inside the try
ConnectionFails(k) ==
    /\ pc = "awaiting"
    /\ MayReceive(k, "inflight")
    /\ \E t \in ConnectFailTimes, message \in ConnectFailures :
          tasks' = [tasks EXCEPT ![k] =
                Task("ret_exception", 0, 0, NoData,
                     ExceptionResult(CurExchange, t, "ClientConnectorError", message))]
    /\ UNCHANGED <<caller, exchange_configs, endpoint, arg_exchange, session, pc, idx,
                   issued, launched, all_results, test_summary, ret, report>>


-----------------------------------------------------------------------------
(* Arithmetic of the statistics *)

Rat(n, d) == [num |-> n, den |-> d]
RatEq(a, b) == a.num * b.den = b.num * a.den
RatLess(a, b) == a.num * b.den < b.num * a.den
RatAdd(a, b) == Rat(a.num * b.den + b.num * a.den, a.den * b.den)

RECURSIVE SeqSum(_)
SeqSum(s) == IF s = << >> THEN 0 ELSE Head(s) + SeqSum(Tail(s))

RECURSIVE RatSum(_)
RatSum(s) == IF s = << >> THEN Rat(0, 1) ELSE RatAdd(Head(s), RatSum(Tail(s)))

\* min(xs), max(xs) of a non-empty list of numbers
SeqMin(s) == CHOOSE x \in Range(s) : \A y \in Range(s) : x <= y
SeqMax(s) == CHOOSE x \in Range(s) : \A y \in Range(s) : x >= y

\* statistics.mean of a non-empty list of numbers
Mean(s) == Rat(SeqSum(s), Len(s))

\* statistics.mean of a non-empty list of rationals
RatMean(s) == LET t == RatSum(s) IN Rat(t.num, t.den * Len(s))

\* the integer nearest to n/d, a tie going to the even one: what a format
\* spec of fixed precision prints
RoundHalfEven(n, d) ==
    LET q == n \div d
        r == n % d
    IN IF 2 * r < d THEN q
       ELSE IF 2 * r > d THEN q + 1
       ELSE IF q % 2 = 0 THEN q ELSE q + 1

\* f"{x:.1f}": the tenths printed
Fmt1(x) == RoundHalfEven(x.num * 10, x.den)

\* f"{x*1000:.0f}" of a time in seconds: the milliseconds printed
FmtMs(x) == RoundHalfEven(x.num, x.den)

-----------------------------------------------------------------------------
(* dicts in insertion order *)

Keys(d) == { d[i].key : i \in DOMAIN d }

\* DictSet putting a new key first (a faulty variant)
DictSet_Prepend(d, k, v) ==
    IF k \in Keys(d)
    THEN [i \in DOMAIN d |-> IF d[i].key = k THEN [key |-> k, value |-> v] ELSE d[i]]
    ELSE <<[key |-> k, value |-> v]>> \o d

\* d[k] = v
DictSet(d, k, v) ==
    IF k \in Keys(d)
    THEN [i \in DOMAIN d |-> IF d[i].key = k THEN [key |-> k, value |-> v] ELSE d[i]]
    ELSE Append(d, [key |-> k, value |-> v])


-----------------------------------------------------------------------------
(* test_all_exchanges: the statistics of one exchange *)

IsSuccess(r) == r.success
IsFailure(r) == ~r.success

\* [r.response_time for r in successful]
ResponseTimes(results) ==
    LET successful == SelectSeq(results, IsSuccess)
    IN [i \in 1 .. Len(successful) |-> successful[i].response_time]

\* ErrorsOf keeping the error_type of every result (a faulty variant)
ErrorsOf_All(results) ==
    [i \in 1 .. Len(results) |-> results[i].error_type]

\* [r.error_type for r in results if not r.success]
ErrorsOf(results) ==
    LET failed == SelectSeq(results, IsFailure)
    IN [i \in 1 .. Len(failed) |-> failed[i].error_type]

\* the entry self.test_summary[exchange] is set to
SummaryOf(results) ==
    LET successful == SelectSeq(results, IsSuccess)
        response_times == ResponseTimes(results)
    IN [success_rate |-> Rat(Len(successful) * 100, Len(results)),
        avg_response_time |-> IF response_times # << >> THEN Mean(response_times) ELSE Rat(0, 1),
        min_response_time |-> IF response_times # << >> THEN SeqMin(response_times) ELSE 0,
        max_response_time |-> IF response_times # << >> THEN SeqMax(response_times) ELSE 0,
        total_requests |-> TOTAL_REQUESTS,
        successful_requests |-> Len(successful),
        errors |-> ErrorsOf(results)]

\* what asyncio.gather returns: the results in the order of its arguments
GatherResults == [k \in TaskIds |-> tasks[k].result]

\* every coroutine has returned: gather returns, the exchange's results are
\* stored and summarised, and the loop sleeps 0.3 s
SummariseExchange ==
    /\ caller = "main"
    /\ pc = "awaiting"
    /\ \A k \in TaskIds : Returned(tasks[k])
    /\ LET results == GatherResults
       IN /\ all_results' = DictSet(all_results, exchange_configs[idx], results)
          /\ test_summary' = DictSet(test_summary, exchange_configs[idx], SummaryOf(results))
    /\ tasks' = [k \in TaskIds |-> Unused]
    /\ pc' = "sleeping"
    /\ UNCHANGED <<caller, exchange_configs, endpoint, arg_exchange, session, idx,
                   issued, launched, ret, report>>

\* asyncio.sleep(0.3) is over: the next iteration
WakeUp ==
    /\ pc = "sleeping"
    /\ idx' = idx + 1
    /\ pc' = "loop"
    /\ UNCHANGED <<caller, exchange_configs, endpoint, arg_exchange, session, tasks,
                   issued, launched, all_results, test_summary, ret, report>>

\* the directly awaited coroutine has returned
ReturnResult ==
    /\ caller = "api"
    /\ pc = "awaiting"
    /\ Returned(tasks[1])
    /\ ret' = tasks[1].result
    /\ tasks' = [k \in TaskIds |-> Unused]
    /\ pc' = "api_returned"
    /\ UNCHANGED <<caller, exchange_configs, endpoint, arg_exchange, session, idx,
                   issued, launched, all_results, test_summary, report>>

\* a coroutine raised KeyError: gather (or the direct await) raises it in the
\* caller once the loop has run the ready coroutines; under main() it leaves
\* test_all_exchanges and the async with block, which closes the session
PropagateKeyError ==
    /\ pc = "awaiting"
    /\ \E k \in TaskIds : tasks[k].pc = "raised"
    /\ \A k \in TaskIds : tasks[k].pc # "scheduled"
    /\ pc' = "raised"
    /\ session' = IF caller = "main" THEN [session EXCEPT !.closed = TRUE] ELSE session
    /\ UNCHANGED <<caller, exchange_configs, endpoint, arg_exchange, idx, tasks,
                   issued, launched, all_results, test_summary, ret, report>>


-----------------------------------------------------------------------------
(* generate_report *)

\* one line of the report: which line it is and what it interpolates
Line(kind, name, color, nums, text) ==
    [kind |-> kind, name |-> name, color |-> color, nums |-> nums, text |-> text]

\* the values datetime.now().strftime('%Y-%m-%d %H:%M:%S') can take
ReportTimes == { "2024-01-01 00:00:00", "2024-01-01 00:00:01" }

\* the orders iterating a set of str can take: the interpreter's string hash
\* seed decides, and nothing in the program fixes it
Perms(S) == { p \in [1 .. Cardinality(S) -> S] : Range(p) = S }

\* per entry of the summary, an iteration order of set(stats['errors'])
SetOrders(summary) ==
    { o \in [DOMAIN summary -> UNION { Perms(Range(summary[i].value.errors)) : i \in DOMAIN summary }] :
        \A i \in DOMAIN summary : o[i] \in Perms(Range(summary[i].value.errors)) }

RateAtLeast(rate, percent) == rate.num >= percent * rate.den

ColorOf(success_rate) ==
    IF RateAtLeast(success_rate, GREEN_RATE) THEN "GREEN"
    ELSE IF RateAtLeast(success_rate, YELLOW_RATE) THEN "YELLOW"
    ELSE "RED"

\* the lines "      錯誤: {error}" of one exchange, in the order the set iterates
RECURSIVE ErrorLines(_)
ErrorLines(order) ==
    IF order = << >> THEN << >>
    ELSE (IF Head(order) # << >>
          THEN <<Line("error", "", "RED", << >>, Head(order))>>
          ELSE << >>) \o ErrorLines(Tail(order))

\* the line of one exchange and its error lines
ExchangeLines(entry, order) ==
    LET stats == entry.value
    IN <<Line("exchange", entry.key, ColorOf(stats.success_rate),
              <<Fmt1(stats.success_rate), FmtMs(stats.avg_response_time),
                stats.successful_requests, stats.total_requests>>, << >>)>>
       \o (IF stats.errors # << >> THEN ErrorLines(order) ELSE << >>)

RECURSIVE AllExchangeLines(_, _, _)
AllExchangeLines(summary, orders, i) ==
    IF i > Len(summary) THEN << >>
    ELSE ExchangeLines(summary[i], orders[i]) \o AllExchangeLines(summary, orders, i + 1)

\* KeyGreater comparing the response times alone (a faulty variant)
KeyGreater_TimeOnly(a, b) ==
    RatLess(a.value.avg_response_time, b.value.avg_response_time)

\* the key of max(): (success_rate, -avg_response_time), compared as tuples
KeyGreater(a, b) ==
    \/ RatLess(b.value.success_rate, a.value.success_rate)
    \/ /\ RatEq(a.value.success_rate, b.value.success_rate)
       /\ RatLess(a.value.avg_response_time, b.value.avg_response_time)

\* max(items, key=...): the first item no later item's key exceeds
RECURSIVE MaxFrom(_, _)
MaxFrom(best, rest) ==
    IF rest = << >> THEN best
    ELSE MaxFrom(IF KeyGreater(Head(rest), best) THEN Head(rest) ELSE best, Tail(rest))

PyMax(items) == MaxFrom(Head(items), Tail(items))

\* HasSuccess with >= for > (a faulty variant)
HasSuccess_NonNegative(entry) == entry.value.success_rate.num >= 0

\* v['success_rate'] > 0
HasSuccess(entry) == entry.value.success_rate.num > 0

\* {k:v for k,v in self.test_summary.items() if v['success_rate'] > 0}
SuccessfulExchanges(summary) == SelectSeq(summary, HasSuccess)

\* the line recommending the best exchange, or the notice that all failed
RecommendationLine(summary) ==
    LET successful_exchanges == SuccessfulExchanges(summary)
    IN IF successful_exchanges # << >>
       THEN LET best == PyMax(successful_exchanges)
            IN Line("recommend", best.key, "", <<Fmt1(best.value.success_rate)>>, << >>)
       ELSE Line("all_failed", "", "", << >>, << >>)

\* statistics.mean([s['success_rate'] ...]) and statistics.mean([s['avg_response_time'] ...])
OverallSuccess(summary) ==
    RatMean([i \in DOMAIN summary |-> summary[i].value.success_rate])
OverallResponse(summary) ==
    RatMean([i \in DOMAIN summary |-> summary[i].value.avg_response_time])

OverallLine(summary) ==
    Line("overall", "", "", <<Fmt1(OverallSuccess(summary)), FmtMs(OverallResponse(summary))>>, << >>)

\* the report, as the tuple of its lines
generate_report(summary, orders, now) ==
    IF summary = << >>
    THEN <<Line("no_data", "", "", << >>, NO_TEST_DATA)>>
    ELSE <<Line("rule", "", "", << >>, << >>),
           Line("title", "", "MAGENTA", << >>, << >>),
           Line("generated", "", "", << >>, <<now>>),
           Line("count", "", "", <<Len(summary)>>, << >>),
           Line("rule", "", "", << >>, << >>)>>
         \o AllExchangeLines(summary, orders, 1)
         \o <<Line("dashes", "", "", << >>, << >>),
              OverallLine(summary),
              RecommendationLine(summary),
              Line("rule", "", "", << >>, << >>)>>

\* main(): report = tester.generate_report(), printed and written to the file
GenerateReport ==
    /\ caller = "main"
    /\ pc = "returned"
    /\ \E orders \in SetOrders(test_summary), now \in ReportTimes :
          report' = generate_report(test_summary, orders, now)
    /\ pc' = "reported"
    /\ UNCHANGED <<caller, exchange_configs, endpoint, arg_exchange, session, idx, tasks,
                   issued, launched, all_results, test_summary, ret>>

\* __aexit__: the async with block of main() is left
AExit ==
    /\ caller = "main"
    /\ pc = "reported"
    /\ session' = [session EXCEPT !.closed = TRUE]
    /\ pc' = "exited"
    /\ UNCHANGED <<caller, exchange_configs, endpoint, arg_exchange, idx, tasks,
                   issued, launched, all_results, test_summary, ret, report>>

-----------------------------------------------------------------------------
(* The specification *)

Next ==
    \/ AEnter
    \/ CallTestAllExchanges
    \/ CallTestSingleEndpoint
    \/ RunConcurrentTests
    \/ ReturnAllResults
    \/ \E k \in TaskIds : StartProbe(k)
    \/ \E k \in TaskIds : ReceiveHeaders(k)
    \/ \E k \in TaskIds : ReceiveJson(k)
    \/ \E k \in TaskIds : JsonFails(k)
    \/ \E k \in TaskIds : ReceiveText(k)
    \/ \E k \in TaskIds : TimeoutExpires(k)
    \/ \E k \in TaskIds : ConnectionFails(k)
    \/ SummariseExchange
    \/ WakeUp
    \/ ReturnResult
    \/ PropagateKeyError
    \/ GenerateReport
    \/ AExit

Spec == Init /\ [][Next]_vars


-----------------------------------------------------------------------------
(* generate_report alone, over the summaries a finished run can leave *)

\* answers a probe of a configured exchange can get, among them two that
\* end in different errors
SampleAnswers == { "ticker", "empty", "silence" }

\* the result test_single_endpoint returns on each
SampleResult(exchange, answer) ==
    CASE answer = "ticker" -> Status200Result(exchange, 80, FullTicker)
      [] answer = "empty" -> Status200Result(exchange, 80, EmptyDict)
      [] answer = "silence" -> TimeoutResult(exchange)

\* the dict of the results of every exchange of configs
ResultDicts(configs) ==
    { [i \in DOMAIN configs |->
          [key |-> configs[i],
           value |-> [k \in TaskIds |-> SampleResult(configs[i], f[i][k])]]] :
        f \in [DOMAIN configs -> [TaskIds -> SampleAnswers]] }

\* the state test_all_exchanges returns in
InitReport ==
    /\ caller = "main"
    /\ endpoint = "ticker"
    /\ exchange_configs \in { FirstKeys(n) : n \in 0 .. MaxTargets }
    /\ arg_exchange = ""
    /\ session = [timeout_total |-> CLIENT_TIMEOUT_TOTAL, closed |-> FALSE]
    /\ pc = "returned"
    /\ idx = Len(exchange_configs) + 1
    /\ tasks = [k \in TaskIds |-> Unused]
    /\ issued = [e \in AllNames |-> IF e \in Range(exchange_configs) THEN NUM_REQUESTS ELSE 0]
    /\ launched = [e \in AllNames |-> IF e \in Range(exchange_configs) THEN NUM_REQUESTS ELSE 0]
    /\ all_results \in ResultDicts(exchange_configs)
    /\ test_summary =
          [i \in DOMAIN all_results |->
              [key |-> all_results[i].key, value |-> SummaryOf(all_results[i].value)]]
    /\ ret = None
    /\ report = None

NextReport ==
    \/ GenerateReport
    \/ AExit

SpecReport == InitReport /\ [][NextReport]_vars


-----------------------------------------------------------------------------
(* What the properties speak of *)

\* generate_report has returned
Reported == pc \in { "reported", "exited" }

\* test_all_exchanges has returned
RunEnded == caller = "main" /\ pc \in { "returned", "reported", "exited" }

HasLine(rep, kind) == \E i \in DOMAIN rep : rep[i].kind = kind

TheLine(rep, kind) == rep[CHOOSE i \in DOMAIN rep : rep[i].kind = kind]

\* every result the run has collected
CollectedResults ==
    UNION { Range(all_results[i].value) : i \in DOMAIN all_results }

\* every result a coroutine holds or a call has returned
KnownResults ==
    CollectedResults
      \cup { tasks[k].result : k \in { j \in TaskIds : Returned(tasks[j]) } }
      \cup (IF pc = "api_returned" THEN { ret } ELSE {})

NoProbeSucceeded == \A r \in CollectedResults : ~r.success

IsEmptyBody(data) == data.type \in { "dict", "list" } /\ PyLen(data) = 0
IsNonEmptyBody(data) == data.type \in { "dict", "list" } /\ PyLen(data) > 0

\* the report with the time of its "generated" line blanked
StripTime(rep) ==
    [i \in DOMAIN rep |->
        IF rep[i].kind = "generated" THEN [rep[i] EXCEPT !.text = << >>] ELSE rep[i]]

-----------------------------------------------------------------------------
(* C1 *)

\* C1: every call of test_single_endpoint returns a result and never raises,
\* whatever the exchange name, the endpoint name and the outcome of the
\* request; no failure of a probe leaves run_concurrent_tests or
\* test_all_exchanges.
C1_NeverRaises ==
    /\ \A k \in TaskIds : tasks[k].pc # "raised"
    /\ pc # "raised"

-----------------------------------------------------------------------------
(* C2 *)

\* C2 as claimed: when the run waits for a probe, the probes of every
\* configured target have been launched.
C2_AllTargetsLaunchedBeforeWaiting ==
    (caller = "main" /\ pc = "awaiting") =>
        \A i \in DOMAIN exchange_configs :
            launched[exchange_configs[i]] = NUM_REQUESTS

\* C2 as amended: the targets are probed in turn.  While the run waits, the
\* NUM_REQUESTS probes of the current target have all been launched, every
\* earlier target's probes have all completed, no later target's probe has
\* been launched or has called session.get, and no answer to a probe of the
\* current target is taken before all of its probes have called session.get.
C2_TargetsProbedInTurn ==
    (caller = "main" /\ pc = "awaiting") =>
        /\ launched[exchange_configs[idx]] = NUM_REQUESTS
        /\ \A i \in DOMAIN exchange_configs :
              /\ i > idx => /\ launched[exchange_configs[i]] = 0
                            /\ issued[exchange_configs[i]] = 0
              /\ i < idx => /\ i \in DOMAIN all_results
                            /\ all_results[i].key = exchange_configs[i]
                            /\ Len(all_results[i].value) = NUM_REQUESTS
        /\ (\E k \in TaskIds : tasks[k].pc = "headers" \/ Returned(tasks[k])) =>
              issued[exchange_configs[idx]] = NUM_REQUESTS

\* a probe of the first target is still unanswered, a sibling has returned,
\* and the second target has not been started
C2_Witness ==
    /\ caller = "main" /\ pc = "awaiting" /\ idx = 1
    /\ Len(exchange_configs) >= 2
    /\ \E k \in TaskIds : tasks[k].pc = "inflight"
    /\ \E k \in TaskIds : Returned(tasks[k])
    /\ launched[exchange_configs[2]] = 0

-----------------------------------------------------------------------------
(* C3 *)

-----------------------------------------------------------------------------
(* C4 *)

\* the name on the recommendation line
RecommendedName == TheLine(report, "recommend").name

\* the first, in input order, of the successful entries of least average
\* response time
FastestSuccessful(summary) ==
    LET succ == SuccessfulExchanges(summary)
    IN succ[CHOOSE i \in DOMAIN succ :
               /\ \A j \in DOMAIN succ :
                     ~RatLess(succ[j].value.avg_response_time, succ[i].value.avg_response_time)
               /\ \A j \in DOMAIN succ :
                     j < i => RatLess(succ[i].value.avg_response_time,
                                      succ[j].value.avg_response_time)]

\* C4 as claimed: the recommended target is the successful target of minimum
\* response time, the first in input order among equals, however many of its
\* requests failed.
C4_RecommendsFastest ==
    (Reported /\ SuccessfulExchanges(test_summary) # << >>) =>
        /\ HasLine(report, "recommend")
        /\ RecommendedName = FastestSuccessful(test_summary).key

\* C4 as amended: the recommended target has the highest success rate among
\* the targets with a success; among those of that rate it has the least
\* average response time over its successful requests; and among those equal
\* in both it comes first in input order.
C4_RecommendsHighestRateThenFastest ==
    (Reported /\ SuccessfulExchanges(test_summary) # << >>) =>
        /\ HasLine(report, "recommend")
        /\ \E b \in DOMAIN test_summary :
              /\ test_summary[b].key = RecommendedName
              /\ HasSuccess(test_summary[b])
              /\ \A i \in DOMAIN test_summary :
                    LET best == test_summary[b].value
                        other == test_summary[i].value
                    IN /\ ~RatLess(best.success_rate, other.success_rate)
                       /\ RatEq(best.success_rate, other.success_rate) =>
                             ~RatLess(other.avg_response_time, best.avg_response_time)
                       /\ (/\ RatEq(best.success_rate, other.success_rate)
                           /\ RatEq(best.avg_response_time, other.avg_response_time)) =>
                             b <= i

\* the first target is the faster one but lost a request, and the second,
\* slower and without a failure, is recommended
C4_Witness ==
    /\ Reported
    /\ Len(test_summary) >= 2
    /\ HasSuccess(test_summary[1]) /\ HasSuccess(test_summary[2])
    /\ RatLess(test_summary[1].value.success_rate, test_summary[2].value.success_rate)
    /\ RatLess(test_summary[1].value.avg_response_time, test_summary[2].value.avg_response_time)
    /\ HasLine(report, "recommend")
    /\ RecommendedName = test_summary[2].key


-----------------------------------------------------------------------------
(* C5 *)

\* the coroutines that got status 200 and a body that parsed
Parsed == { k \in TaskIds : tasks[k].pc = "ret_200" }

SpecialExchanges == { "binance", "bitget", "pionex" }

\* C5 as claimed: for every exchange, status 200 with a non-empty object or
\* array is a success, and with an empty one a failure classified as
\* incomplete data.
C5_NonEmptyBodySucceeds ==
    \A k \in Parsed :
        LET t == tasks[k]
        IN /\ IsNonEmptyBody(t.data) => t.result.success
           /\ IsEmptyBody(t.data) =>
                 ~t.result.success /\ t.result.error_type = ERR_DATA_INCOMPLETE

\* C5 as amended: for every exchange, status 200 with an empty object or
\* array is a failure classified as incomplete data; with a non-empty object
\* or array it is a success for every exchange but binance, bitget and
\* pionex; for binance it is a success exactly when the body is an object
\* with the keys symbol and lastPrice, for bitget exactly when it is an
\* object whose code is "00000", for pionex exactly when it is an object
\* whose result is true; and a failure at status 200 with a parsed body is
\* always classified as incomplete data.
C5_BodyValidatedPerExchange ==
    \A k \in Parsed :
        LET t == tasks[k]
            e == t.result.exchange
            fields == IF t.data.type = "dict" THEN DOMAIN t.data.value ELSE {}
        IN /\ IsEmptyBody(t.data) =>
                 ~t.result.success /\ t.result.error_type = ERR_DATA_INCOMPLETE
           /\ (IsNonEmptyBody(t.data) /\ e \notin SpecialExchanges) =>
                 t.result.success /\ t.result.error_type = << >>
           /\ e = "binance" =>
                 (t.result.success <=> { "symbol", "lastPrice" } \subseteq fields)
           /\ e = "bitget" =>
                 (t.result.success <=> ("code" \in fields /\ t.data.value.code = "00000"))
           /\ e = "pionex" =>
                 (t.result.success <=> ("result" \in fields /\ t.data.value.result = TRUE))
           /\ ~t.result.success => t.result.error_type = ERR_DATA_INCOMPLETE

\* kucoin answered 200 with a non-empty array and the probe is a success
C5_Witness ==
    \E k \in Parsed :
        /\ tasks[k].result.exchange = "kucoin"
        /\ tasks[k].data.type = "list" /\ IsNonEmptyBody(tasks[k].data)
        /\ tasks[k].result.success

-----------------------------------------------------------------------------
(* C6 *)

\* what the claim says a timed-out probe of the exchange returns
IsTimeoutFailure(r) ==
    /\ ~r.success
    /\ r.error_type = <<"Timeout">>
    /\ r.data_size = 0
    /\ r.response_time = session.timeout_total * MsPerSec

\* C6: a probe that timed out, while waiting for the headers or while reading
\* the body, returned a failure with error "Timeout", data size 0 and the
\* session's total timeout as response time; and every result with the error
\* "Timeout" is such a failure.
C6_TimeoutResult ==
    /\ \A k \in TaskIds : tasks[k].pc = "ret_timeout" => IsTimeoutFailure(tasks[k].result)
    /\ \A r \in KnownResults : r.error_type = <<"Timeout">> => IsTimeoutFailure(r)

\* a probe timed out while reading the body of a 200 answer
C6_Witness ==
    \E k \in TaskIds :
        /\ tasks[k].pc = "ret_timeout"
        /\ tasks[k].status = 200
        /\ tasks[k].result.response_time = 15000

-----------------------------------------------------------------------------
(* C7 *)

\* C7 as claimed: a report of a run without a successful probe has no
\* recommendation line and has the all-failed notice, every success rate being
\* 0; and a report has a recommendation line only if a probe succeeded.
C7_AllFailedNotice ==
    Reported =>
        /\ NoProbeSucceeded =>
              /\ \A i \in DOMAIN test_summary : test_summary[i].value.success_rate.num = 0
              /\ ~HasLine(report, "recommend")
              /\ HasLine(report, "all_failed")
        /\ HasLine(report, "recommend") => ~NoProbeSucceeded

\* C7 as amended: the same for a run over at least one target; a run over no
\* target is reported as the single line NO_TEST_DATA, without the notice.
C7_AllFailedNoticeIfAnyTarget ==
    Reported =>
        /\ (NoProbeSucceeded /\ exchange_configs # << >>) =>
              /\ \A i \in DOMAIN test_summary : test_summary[i].value.success_rate.num = 0
              /\ ~HasLine(report, "recommend")
              /\ HasLine(report, "all_failed")
        /\ exchange_configs = << >> =>
              /\ Len(report) = 1
              /\ report[1].kind = "no_data" /\ report[1].text = NO_TEST_DATA
        /\ HasLine(report, "recommend") => ~NoProbeSucceeded

\* two targets, every probe failed, and the report carries the notice
C7_Witness ==
    /\ Reported
    /\ Len(exchange_configs) >= 2
    /\ Len(test_summary) = Len(exchange_configs)
    /\ NoProbeSucceeded
    /\ HasLine(report, "all_failed")

-----------------------------------------------------------------------------
(* C8 *)

\* the response times of the successful results
SuccessTimes(results) ==
    { results[k].response_time : k \in { j \in DOMAIN results : results[j].success } }

\* the average response times of the targets with a success
SuccessfulAverages(summary) ==
    LET succ == SuccessfulExchanges(summary)
    IN [i \in DOMAIN succ |-> succ[i].value.avg_response_time]

\* C8: every latency figure is computed over successful results only: a
\* target's min, max and mean are those of its successful results, or 0 when
\* it has none, and the overall response time of the report is the mean over
\* the targets that have a success, the others contributing nothing.
C8_LatencyOverSuccessesOnly ==
    (Reported /\ test_summary # << >>) =>
        /\ \A i \in DOMAIN test_summary :
              LET stats == test_summary[i].value
                  times == SuccessTimes(all_results[i].value)
              IN IF times = {}
                 THEN /\ stats.min_response_time = 0 /\ stats.max_response_time = 0
                      /\ stats.avg_response_time.num = 0
                 ELSE /\ stats.min_response_time \in times
                      /\ stats.max_response_time \in times
                      /\ \A t \in times : stats.min_response_time <= t /\ t <= stats.max_response_time
                      /\ stats.min_response_time * stats.avg_response_time.den
                            <= stats.avg_response_time.num
                      /\ stats.avg_response_time.num
                            <= stats.max_response_time * stats.avg_response_time.den
        /\ TheLine(report, "overall").nums[2] =
              (IF SuccessfulExchanges(test_summary) = << >> THEN 0
               ELSE FmtMs(RatMean(SuccessfulAverages(test_summary))))

-----------------------------------------------------------------------------
(* C9 *)

\* C9: the report is determined by the summary, its time apart: whatever
\* order the interpreter iterates the sets of errors in and whenever it
\* renders, the same summary gives the same lines in the same order.
C9_ReportDeterminedBySummary ==
    Reported =>
        \A orders \in SetOrders(test_summary), now \in ReportTimes :
            StripTime(generate_report(test_summary, orders, now)) = StripTime(report)

-----------------------------------------------------------------------------
(* C10 *)

\* C10: every result is a success exactly when its error is "", and every
\* entry of the summary agrees with the results collected for its exchange:
\* successes plus errors make total_requests, total_requests is the number
\* of probes launched for the exchange and of results collected, and
\* success_rate is successes / total_requests * 100, within [0, 100].
C10_SummaryConsistent ==
    /\ \A r \in KnownResults : r.success <=> r.error_type = << >>
    /\ caller = "main" =>
          /\ Len(test_summary) = Len(all_results)
          /\ \A i \in DOMAIN test_summary :
                LET stats == test_summary[i].value
                    results == all_results[i].value
                IN /\ test_summary[i].key = all_results[i].key
                   /\ stats.successful_requests
                         = Cardinality({ k \in DOMAIN results : results[k].success })
                   /\ stats.successful_requests + Len(stats.errors) = stats.total_requests
                   /\ stats.total_requests = launched[test_summary[i].key]
                   /\ stats.total_requests = Len(results)
                   /\ stats.success_rate.num * stats.total_requests
                         = stats.successful_requests * 100 * stats.success_rate.den
                   /\ 0 <= stats.success_rate.num
                   /\ stats.success_rate.num <= 100 * stats.success_rate.den

\* an exchange is summarised with two successes and one error
C10_Witness ==
    /\ caller = "main"
    /\ \E i \in DOMAIN test_summary :
          /\ test_summary[i].value.successful_requests = 2
          /\ Len(test_summary[i].value.errors) = 1

=============================================================================
